---- MODULE Spec2Model ----
(***************************************************************************)
(* A model of menuui.py: MenuOption construction, Menu.add_option, and the *)
(* Menu.show read-dispatch loop with its pagination and drawing.           *)
(*                                                                         *)
(* Every Python value is a record [cls, id].  The terminal is the record   *)
(* `screen`.  One action is one statement of the wiring code (building     *)
(* the menus, calling show) or one iteration of the `while True` loop of   *)
(* the innermost running show.  Nested shows (an option bound to a         *)
(* submenu's show) are the frames of `stack`, innermost last.              *)
(***************************************************************************)
EXTENDS Integers, Sequences, FiniteSets, TLC

\* ---------------------------------------------------------------- bounds
MaxAdds    == 2     \* slots added by add_option, over all menus (Spec)
MaxBuf     == 2     \* keys accumulated in `choice` before Enter
MaxSlots   == 5     \* slots of the menu paginated under SpecPaginate
MaxPageCap == 3     \* largest page capacity rows - 7 under SpecPaginate

\* ---------------------------------------------------------------- values
Val(c, x) == [cls |-> c, id |-> x]
NoneV     == Val("NoneType", "None")
Str(s)    == Val("str", s)
Fn(f)     == Val("function", f)
MenuV(m)  == Val("Menu", m)
Method(m) == Val("method", m)          \* the bound method m.show
IntV      == Val("int", "5")           \* a value that is neither callable nor a Menu
NewSelf   == Val("MenuOption", "self") \* the MenuOption under construction

Menus == {"main", "sub"}

\* The callables of the application: `foo` answers a status string, `leave`
\* answers None.
Ret(f) == IF f = "foo" THEN Str("Foo!") ELSE NoneV

Sentinel == Str("Library list changed")

NoExc      == [type |-> "none", obj |-> NoneV, msg |-> ""]
Exc(t, o, m) == [type |-> t, obj |-> o, msg |-> m]
IndexError == Exc("IndexError", NoneV, "list index out of range")
NoRet      == Val("noreturn", "")

\* hasattr(func, "__call__")
Callable(v) == v.cls \in {"function", "method"}

\* MenuOption.__init__(self, name, func): the option built, or the error raised.
MenuOptionInit(self, name, func) ==
  LET f1 == IF func.cls = "Menu" THEN Method(func.id) ELSE func
  IN  IF ~Callable(f1)
        THEN [raised |-> Exc("OptionError", self, "Menu options must be callable"),
              opt |-> NoneV]
        ELSE [raised |-> NoExc,
              opt |-> [cls |-> "MenuOption", id |-> name, func |-> f1]]

\* Faulty variant of add_option: the value is appended before it is examined.
AddOptionAppendsFirst(os, opt) ==
  IF opt.cls # "MenuOption" /\ opt # NoneV
    THEN [raised |-> Exc("OptionError", opt, "Not a MenuOption object"),
          opts |-> Append(os, opt)]
    ELSE [raised |-> NoExc, opts |-> Append(os, opt)]

\* Menu.add_option(self, opt) on the option list `os`.
add_option(os, opt) ==
  IF opt.cls # "MenuOption" /\ opt # NoneV
    THEN [raised |-> Exc("OptionError", opt, "Not a MenuOption object"), opts |-> os]
    ELSE [raised |-> NoExc, opts |-> Append(os, opt)]

\* Menu.__init__(self, ui, header): the menu built, or the error raised.
UIV == Val("MenuUI", "ui")             \* the application's MenuUI object

MenuInit(ui, header) ==
  IF ui.cls # "MenuUI"
    THEN [raised |-> Exc("MenuError", ui, "Not a MenuUI object"), menu |-> NoneV]
    ELSE [raised |-> NoExc, menu |-> [ui |-> ui, hdr |-> header, opts |-> <<>>]]

\* ---------------------------------------------------------- color schemes
ColorFields ==
  {"fg", "bg", "hdr_fg", "hdr_bg", "dlg_fg", "dlg_bg", "but_fg", "but_bg",
   "bdr_fg", "bdr_bg", "sel_fg", "sel_bg", "ps1_fg", "ps1_bg", "dir_clr", "file_clr"}

\* A MenuUI before its first use_color_scheme: no color attribute is set.
NoColors == [f \in ColorFields |-> 0 - 1]

\* Faulty variant of the presets: the as400 branch does not assign the prompt
\* background.
UseColorSchemeKeepsPromptBg(c, scheme) ==
  IF scheme = "default"
    THEN [c EXCEPT !.fg = 7, !.bg = 0, !.hdr_fg = 6, !.hdr_bg = 0,
                   !.dlg_fg = 7, !.dlg_bg = 4, !.but_fg = 0, !.but_bg = 7,
                   !.bdr_fg = 7, !.bdr_bg = 4, !.sel_fg = 7, !.sel_bg = 1,
                   !.ps1_fg = 7, !.ps1_bg = 0, !.dir_clr = 3, !.file_clr = 7]
  ELSE IF scheme = "curses"
    THEN [c EXCEPT !.fg = 7, !.bg = 4, !.hdr_fg = 6, !.hdr_bg = 4,
                   !.dlg_fg = 7, !.dlg_bg = 4, !.but_fg = 0, !.but_bg = 7,
                   !.bdr_fg = 7, !.bdr_bg = 4, !.sel_fg = 7, !.sel_bg = 1,
                   !.ps1_fg = 3, !.ps1_bg = 4, !.dir_clr = 3, !.file_clr = 7]
  ELSE IF scheme = "as400"
    THEN [c EXCEPT !.fg = 2, !.bg = 0, !.hdr_fg = 7, !.hdr_bg = 0,
                   !.dlg_fg = 6, !.dlg_bg = 0, !.but_fg = 0, !.but_bg = 6,
                   !.bdr_fg = 7, !.bdr_bg = 6, !.sel_fg = 0, !.sel_bg = 7,
                   !.ps1_fg = 2, !.dir_clr = 5, !.file_clr = 3]
  ELSE c

\* MenuUI.use_color_scheme(self, scheme) on the color fields c: each branch
\* assigns its fields one by one; a name that matches no branch assigns none.
use_color_scheme(c, scheme) ==
  IF scheme = "default"
    THEN [c EXCEPT !.fg = 7, !.bg = 0, !.hdr_fg = 6, !.hdr_bg = 0,
                   !.dlg_fg = 7, !.dlg_bg = 4, !.but_fg = 0, !.but_bg = 7,
                   !.bdr_fg = 7, !.bdr_bg = 4, !.sel_fg = 7, !.sel_bg = 1,
                   !.ps1_fg = 7, !.ps1_bg = 0, !.dir_clr = 3, !.file_clr = 7]
  ELSE IF scheme = "curses"
    THEN [c EXCEPT !.fg = 7, !.bg = 4, !.hdr_fg = 6, !.hdr_bg = 4,
                   !.dlg_fg = 7, !.dlg_bg = 4, !.but_fg = 0, !.but_bg = 7,
                   !.bdr_fg = 7, !.bdr_bg = 4, !.sel_fg = 7, !.sel_bg = 1,
                   !.ps1_fg = 3, !.ps1_bg = 4, !.dir_clr = 3, !.file_clr = 7]
  ELSE IF scheme = "as400"
    THEN [c EXCEPT !.fg = 2, !.bg = 0, !.hdr_fg = 7, !.hdr_bg = 0,
                   !.dlg_fg = 6, !.dlg_bg = 0, !.but_fg = 0, !.but_bg = 6,
                   !.bdr_fg = 7, !.bdr_bg = 6, !.sel_fg = 0, !.sel_bg = 7,
                   !.ps1_fg = 2, !.ps1_bg = 0, !.dir_clr = 5, !.file_clr = 3]
  ELSE c

\* ------------------------------------------------------------ pagination
\* Faulty variant of the packing loop: `<=` for `<`, so a page takes one slot
\* more than the capacity.
RECURSIVE PaginateFromOverfull(_, _, _, _)
PaginateFromOverfull(os, k, pages, num_opts) ==
  IF k > Len(os) THEN pages
  ELSE LET cur == Len(pages)
       IN  IF Len(pages[cur]) <= num_opts
             THEN PaginateFromOverfull(os, k + 1,
                               [pages EXCEPT ![cur] = Append(@, os[k])], num_opts)
             ELSE PaginateFromOverfull(os, k + 1, Append(pages, <<os[k]>>), num_opts)

RECURSIVE PaginateFrom(_, _, _, _)
PaginateFrom(os, k, pages, num_opts) ==
  IF k > Len(os) THEN pages
  ELSE LET cur == Len(pages)
       IN  IF Len(pages[cur]) < num_opts
             THEN PaginateFrom(os, k + 1,
                               [pages EXCEPT ![cur] = Append(@, os[k])], num_opts)
             ELSE PaginateFrom(os, k + 1, Append(pages, <<os[k]>>), num_opts)

\* Menu._paginate: the value assigned to self._pages.
Paginate(os, nrows) == PaginateFrom(os, 1, << <<>> >>, nrows - 7)

\* --------------------------------------------------------------- drawing
BlankLine == [num |-> -1, name |-> ""]
BlankScreen ==
  [hdr |-> "", lines |-> <<>>, fwd |-> FALSE, bwd |-> FALSE, echo |-> <<>>]

\* Menu._draw_page(self, page): wipe, header, then one printed line per slot,
\* numbered by enumerate(page).
DrawPage(m, page) ==
  [BlankScreen EXCEPT
     !.hdr = m,
     !.lines = [j \in 1..Len(page) |->
                  IF page[j] = NoneV THEN BlankLine
                  ELSE [num |-> j - 1, name |-> page[j].id]]]

\* Faulty variant of the footer: '+' tested against len(pages), as in a page
\* count taken for the last index.
DrawFtrCountsPages(scr, idx, pgs) ==
  [scr EXCEPT !.echo = <<>>,
              !.fwd = @ \/ (idx < Len(pgs)),
              !.bwd = @ \/ (idx > 0)]

\* Menu._draw_ftr(self, idx): the prompt row is overwritten with blanks, the
\* '+' and '-' glyphs are printed when their condition holds (and never erased).
DrawFtr(scr, idx, pgs) ==
  [scr EXCEPT !.echo = <<>>,
              !.fwd = @ \/ (idx < Len(pgs) - 1),
              !.bwd = @ \/ (idx > 0)]

\* ------------------------------------------------------------------ keys
CR  == "CR"      \* b'\r'
E0  == "E0"      \* b'\xe0'
NUL == "00"      \* b'\x00'
Printable == {"0", "1", "-"}
\* Two-byte sequences that are none of page-down, page-up and quick exit.
OtherSeqs == {<<E0, CR>>, <<NUL, "Q">>}
Digit == [c \in {"0", "1"} |-> IF c = "0" THEN 0 ELSE 1]

RECURSIVE DigitsVal(_)
DigitsVal(ds) ==
  IF Len(ds) = 0 THEN 0
  ELSE 10 * DigitsVal(SubSeq(ds, 1, Len(ds) - 1)) + Digit[ds[Len(ds)]]

AllDigits(ds) == Len(ds) > 0 /\ \A j \in 1..Len(ds) : ds[j] \in DOMAIN Digit

\* Faulty variant of the parse: an empty buffer read as 0.
PyIntEmptyIsZero(choice) ==
  IF Len(choice) = 0 \/ AllDigits(choice)
    THEN [ok |-> TRUE, val |-> DigitsVal(choice)]
  ELSE IF Len(choice) > 1 /\ choice[1] = "-" /\ AllDigits(Tail(choice))
    THEN [ok |-> TRUE, val |-> 0 - DigitsVal(Tail(choice))]
  ELSE [ok |-> FALSE, val |-> 0]

\* int(choice) on the bytes typed: an optional sign and at least one digit,
\* anything else raises ValueError.
PyInt(choice) ==
  IF AllDigits(choice) THEN [ok |-> TRUE, val |-> DigitsVal(choice)]
  ELSE IF Len(choice) > 1 /\ choice[1] = "-" /\ AllDigits(Tail(choice))
    THEN [ok |-> TRUE, val |-> 0 - DigitsVal(Tail(choice))]
  ELSE [ok |-> FALSE, val |-> 0]

\* Faulty variant of the lookup: the typed number taken as 1-based.
PyIndexOneBased(os, k) ==
  IF k >= 1 /\ k <= Len(os) THEN [ok |-> TRUE, pos |-> k - 1, item |-> os[k]]
  ELSE [ok |-> FALSE, pos |-> k, item |-> NoneV]

\* self._opts[opt]: Python list indexing, negative indices count from the end.
PyIndex(os, k) ==
  IF k >= 0 /\ k < Len(os) THEN [ok |-> TRUE, pos |-> k, item |-> os[k + 1]]
  ELSE IF k < 0 /\ k >= 0 - Len(os)
    THEN [ok |-> TRUE, pos |-> Len(os) + k, item |-> os[Len(os) + k + 1]]
  ELSE [ok |-> FALSE, pos |-> k, item |-> NoneV]

\* ----------------------------------------------------------------- state
VARIABLES
  colors,   \* the color fields of the MenuUI: fg, bg, hdr_fg, ... file_clr
  rows,     \* ui.rows, captured once when the MenuUI is constructed
  opts,     \* opts[m] = m._opts
  pages,    \* pages[m] = m._pages (<<>> before the first show of m)
  stack,    \* the running show calls, innermost last: [menu, i, cur_page, choice]
  screen,   \* what the terminal shows
  last      \* the statement or loop iteration just executed and its outcome

vars == <<colors, rows, opts, pages, stack, screen, last>>

Frame(m, i, cp, ch) == [menu |-> m, i |-> i, cur_page |-> cp, choice |-> ch]
Top == stack[Len(stack)]
Depth == Len(stack)

NoLast ==
  [op |-> "init", key |-> <<>>, menu |-> "", depth |-> 0, i |-> 0, choice |-> <<>>,
   arg |-> NoneV, raised |-> NoExc, called |-> <<>>, returned |-> NoRet,
   printed |-> NoRet, prev |-> <<>>]

\* The terminal heights the application is started on: page capacity 1 or 2.
TermRows == {8, 9}

Init ==
  /\ colors = use_color_scheme(NoColors, "default")
  /\ rows \in TermRows
  /\ opts = [m \in Menus |-> <<>>]
  /\ pages = [m \in Menus |-> <<>>]
  /\ stack = <<>>
  /\ screen = BlankScreen
  /\ last = NoLast

\* ----------------------------------------------------------- entering show
\* Menu.show up to the loop: _paginate, i = 0, cur_page, choice = b'', the
\* first page and footer drawn.
ShowEntry(m, os, nrows) ==
  LET pgs == Paginate(os, nrows)
  IN  [pages  |-> pgs,
       frame  |-> Frame(m, 0, pgs[1], <<>>),
       screen |-> DrawFtr(DrawPage(m, pgs[1]), 0, pgs)]

\* -------------------------------------------------- handling an action result
RECURSIVE HandleResult(_, _, _, _)
RECURSIVE ShowReturn(_, _, _, _)

\* Faulty variant of the return: the caller is handed None.
ShowReturnNothing(st, val, scr, pgs) ==
  IF Len(st) = 1
    THEN [stack |-> <<>>, screen |-> scr, returned |-> val, printed |-> NoRet]
    ELSE [HandleResult(SubSeq(st, 1, Len(st) - 1), NoneV, scr, pgs)
            EXCEPT !.returned = val]

\* Faulty variant of the result handling: the loop is left whatever the action
\* answered.
HandleResultAlwaysLeaves(st, v, scr, pgs) == ShowReturn(st, Sentinel, scr, pgs)

\* Faulty variant of the result handling: a status result sends the loop back to
\* page 0.
HandleResultResetsPage(st, v, scr, pgs) ==
  LET f == st[Len(st)]
  IN  IF v # NoneV
        THEN [stack    |-> [st EXCEPT ![Len(st)].choice = <<>>, ![Len(st)].i = 0,
                                       ![Len(st)].cur_page = pgs[f.menu][1]],
              screen   |-> DrawFtr(DrawPage(f.menu, pgs[f.menu][1]), 0, pgs[f.menu]),
              returned |-> NoRet,
              printed  |-> v]
        ELSE ShowReturn(st, Sentinel, scr, pgs)

\* The results carry `returned`, the value a show of st returned in this step
\* (NoRet when none did), and `printed`, the value a loop of st printed on the
\* status row (NoRet when none did).
\* `return val` of the innermost show of st: the top-level caller gets val, or
\* the parent loop gets it as the result of the option it invoked.
ShowReturn(st, val, scr, pgs) ==
  IF Len(st) = 1
    THEN [stack |-> <<>>, screen |-> scr, returned |-> val, printed |-> NoRet]
    ELSE [HandleResult(SubSeq(st, 1, Len(st) - 1), val, scr, pgs)
            EXCEPT !.returned = val]

\* The loop of the innermost show of st after `v = self._opts[opt].func()`.
HandleResult(st, v, scr, pgs) ==
  LET f == st[Len(st)]
  IN  IF v # NoneV
        THEN [stack    |-> [st EXCEPT ![Len(st)].choice = <<>>],
              screen   |-> DrawFtr(DrawPage(f.menu, f.cur_page), f.i, pgs[f.menu]),
              returned |-> NoRet,
              printed  |-> v]          \* print(v, end='') on the status row
        ELSE ShowReturn(st, Sentinel, scr, pgs)

\* ------------------------------------------------------------ wiring code
\* The (name, action) pairs the application builds options from: those of the
\* sample application, and the invalid MenuOption("X", 5).
OptionInputs(m) ==
  IF m = "main"
    THEN {<<"Foo", Fn("foo")>>, <<"Quit", Fn("leave")>>,
          <<"Another menu", MenuV("sub")>>, <<"X", IntV>>}
    ELSE {<<"Quit", Fn("leave")>>}

Slots == Len(opts["main"]) + Len(opts["sub"])

\* The application's statements run one after the other while no show is
\* running; it catches nothing, so an exception that reaches it ends the program.
AppRuns == stack = <<>> /\ last.raised = NoExc

\* m.add_option(MenuOption(name, func))
AddNewOption(m, name, func) ==
  /\ AppRuns
  /\ Slots < MaxAdds
  /\ LET c == MenuOptionInit(NewSelf, name, func)
         a == add_option(opts[m], c.opt)
     IN  /\ opts' = IF c.raised # NoExc THEN opts ELSE [opts EXCEPT ![m] = a.opts]
         /\ last' = [NoLast EXCEPT !.op = "new", !.menu = m, !.arg = func,
                       !.raised = IF c.raised # NoExc THEN c.raised ELSE a.raised]
  /\ UNCHANGED <<colors, rows, pages, stack, screen>>

\* m.add_option(x) for a value that is not built by MenuOption: None or junk.
AddSlot(m, x) ==
  /\ AppRuns
  /\ Slots < MaxAdds
  /\ LET a == add_option(opts[m], x)
     IN  /\ opts' = [opts EXCEPT ![m] = a.opts]
         /\ last' = [NoLast EXCEPT !.op = "add", !.menu = m, !.arg = x,
                                   !.raised = a.raised]
  /\ UNCHANGED <<colors, rows, pages, stack, screen>>

\* m = Menu(u, header): the name m is bound to a new, empty menu unless the
\* constructor raises.  Taken while no option refers to the menu m names.
NewMenu(m, u) ==
  /\ AppRuns
  /\ \A n \in Menus : \A k \in 1..Len(opts[n]) :
        IF opts[n][k] = NoneV THEN TRUE ELSE opts[n][k].func # Method(m)
  /\ LET r == MenuInit(u, m)
     IN  /\ opts' = IF r.raised # NoExc THEN opts ELSE [opts EXCEPT ![m] = r.menu.opts]
         /\ pages' = IF r.raised # NoExc THEN pages ELSE [pages EXCEPT ![m] = <<>>]
         /\ last' = [NoLast EXCEPT !.op = "menu", !.menu = m, !.arg = u,
                                   !.raised = r.raised]
  /\ UNCHANGED <<colors, rows, stack, screen>>

\* The scheme names the application passes: the presets and one that is none.
SchemeNames == {"default", "curses", "as400", "mono"}

\* ui.use_color_scheme(name): the fields assigned, then set_color and wipe.
UseColorScheme(name) ==
  /\ AppRuns
  /\ colors' = use_color_scheme(colors, name)
  /\ screen' = BlankScreen
  /\ last' = [NoLast EXCEPT !.op = "scheme", !.arg = Str(name)]
  /\ UNCHANGED <<rows, opts, pages, stack>>

\* Faulty variant of the call: the pages of an earlier show are used again.
ShowCallCached(m) ==
  /\ AppRuns
  /\ LET e == ShowEntry(m, opts[m], rows)
         pgs == IF pages[m] = <<>> THEN e.pages ELSE pages[m]
     IN  /\ pages' = [pages EXCEPT ![m] = pgs]
         /\ stack' = <<Frame(m, 0, pgs[1], <<>>)>>
         /\ screen' = DrawFtr(DrawPage(m, pgs[1]), 0, pgs)
  /\ last' = [NoLast EXCEPT !.op = "show", !.menu = m, !.prev = pages[m]]
  /\ UNCHANGED <<colors, rows, opts>>

\* m.show() called by the application.  last.prev is m._pages as the call
\* found it.
ShowCall(m) ==
  /\ AppRuns
  /\ LET e == ShowEntry(m, opts[m], rows)
     IN  /\ pages' = [pages EXCEPT ![m] = e.pages]
         /\ stack' = <<e.frame>>
         /\ screen' = e.screen
  /\ last' = [NoLast EXCEPT !.op = "show", !.menu = m, !.prev = pages[m]]
  /\ UNCHANGED <<colors, rows, opts>>

\* ------------------------------------------------------ one loop iteration
KeyLast(ks) ==
  [NoLast EXCEPT !.op = "key", !.key = ks, !.menu = Top.menu, !.depth = Depth,
                 !.i = Top.i, !.choice = Top.choice]

\* An exception no frame catches: every running show is left.
Raise(e, ks) ==
  /\ stack' = <<>>
  /\ last' = [KeyLast(ks) EXCEPT !.raised = e]
  /\ UNCHANGED <<colors, rows, opts, pages, screen>>

SetTop(f) == [stack EXCEPT ![Len(stack)] = f]

\* k == b'\r'
KeyEnter ==
  /\ stack # <<>>
  /\ LET f == Top
         n == PyInt(f.choice)
         x == PyIndex(opts[f.menu], n.val)
     IN  IF ~n.ok
           THEN \* except ValueError
                /\ stack' = SetTop([f EXCEPT !.choice = <<>>])
                /\ screen' = DrawFtr(screen, f.i, pages[f.menu])
                /\ last' = KeyLast(<<CR>>)
                /\ UNCHANGED <<colors, rows, opts, pages>>
         ELSE IF ~x.ok
           THEN Raise(IndexError, <<CR>>)
         ELSE IF x.item = NoneV
           THEN /\ stack' = SetTop([f EXCEPT !.choice = <<>>])
                /\ screen' = DrawFtr(screen, f.i, pages[f.menu])
                /\ last' = KeyLast(<<CR>>)
                /\ UNCHANGED <<colors, rows, opts, pages>>
         ELSE IF x.item.func.cls = "method"
           THEN \* the option's func is a submenu's show: that loop runs now
                LET sm == x.item.func.id
                    e  == ShowEntry(sm, opts[sm], rows)
                IN  /\ pages' = [pages EXCEPT ![sm] = e.pages]
                    /\ stack' = Append(stack, e.frame)
                    /\ screen' = e.screen
                    /\ last' = [KeyLast(<<CR>>) EXCEPT
                                  !.called = << <<f.menu, x.pos>> >>,
                                  !.prev = pages[sm]]
                    /\ UNCHANGED <<colors, rows, opts>>
         ELSE LET h == HandleResult(stack, Ret(x.item.func.id), screen, pages)
              IN  /\ stack' = h.stack
                  /\ screen' = h.screen
                  /\ last' = [KeyLast(<<CR>>) EXCEPT
                                !.called = << <<f.menu, x.pos>> >>,
                                !.returned = h.returned,
                                !.printed = h.printed]
                  /\ UNCHANGED <<colors, rows, opts, pages>>

\* Faulty variant of page-down: the buffer is dropped with the wiped screen.
KeyPageDownClears ==
  /\ stack # <<>>
  /\ LET f == Top
         pgs == pages[f.menu]
     IN  IF f.i + 1 >= Len(pgs)
           THEN Raise(IndexError, <<E0, "Q">>)
           ELSE /\ stack' = SetTop([f EXCEPT !.i = f.i + 1, !.choice = <<>>,
                                             !.cur_page = pgs[f.i + 2]])
                /\ screen' = DrawFtr(DrawPage(f.menu, pgs[f.i + 2]), f.i + 1, pgs)
                /\ last' = KeyLast(<<E0, "Q">>)
                /\ UNCHANGED <<colors, rows, opts, pages>>

\* k == b'\xe0Q'
KeyPageDown ==
  /\ stack # <<>>
  /\ LET f == Top
         pgs == pages[f.menu]
     IN  IF f.i < Len(pgs)
           THEN IF f.i + 1 >= Len(pgs)
                  THEN Raise(IndexError, <<E0, "Q">>)   \* self._pages[i]
                  ELSE /\ stack' = SetTop([f EXCEPT !.i = f.i + 1,
                                                    !.cur_page = pgs[f.i + 2]])
                       /\ screen' = DrawFtr(DrawPage(f.menu, pgs[f.i + 2]), f.i + 1, pgs)
                       /\ last' = KeyLast(<<E0, "Q">>)
                       /\ UNCHANGED <<colors, rows, opts, pages>>
           ELSE /\ last' = KeyLast(<<E0, "Q">>)
                /\ UNCHANGED <<colors, rows, opts, pages, stack, screen>>

\* Faulty variant of page-up: the guard `i >= 0`, so that page 0 steps to
\* index -1, the last page.
KeyPageUpUnguarded ==
  /\ stack # <<>>
  /\ LET f == Top
         pgs == pages[f.menu]
         j == IF f.i = 0 THEN Len(pgs) - 1 ELSE f.i - 1
     IN  /\ stack' = SetTop([f EXCEPT !.i = f.i - 1, !.cur_page = pgs[j + 1]])
         /\ screen' = DrawFtr(DrawPage(f.menu, pgs[j + 1]), f.i - 1, pgs)
  /\ last' = KeyLast(<<E0, "I">>)
  /\ UNCHANGED <<colors, rows, opts, pages>>

\* k == b'\xe0I'
KeyPageUp ==
  /\ stack # <<>>
  /\ LET f == Top
         pgs == pages[f.menu]
     IN  IF f.i > 0
           THEN /\ stack' = SetTop([f EXCEPT !.i = f.i - 1, !.cur_page = pgs[f.i]])
                /\ screen' = DrawFtr(DrawPage(f.menu, pgs[f.i]), f.i - 1, pgs)
           ELSE UNCHANGED <<stack, screen>>
  /\ last' = KeyLast(<<E0, "I">>)
  /\ UNCHANGED <<colors, rows, opts, pages>>

\* Faulty variant of quick exit: ignored while digits are pending.
KeyQuickExitWhenIdle ==
  /\ stack # <<>>
  /\ LET r == IF Top.choice = <<>>
                THEN ShowReturn(stack, Sentinel, screen, pages)
                ELSE [stack |-> stack, screen |-> screen, returned |-> NoRet,
                      printed |-> NoRet]
     IN  /\ stack' = r.stack
         /\ screen' = r.screen
         /\ last' = [KeyLast(<<E0, "86">>) EXCEPT !.returned = r.returned,
                                                  !.printed = r.printed]
  /\ UNCHANGED <<colors, rows, opts, pages>>

\* k == b'\xe0\x86'
KeyQuickExit ==
  /\ stack # <<>>
  /\ LET r == ShowReturn(stack, Sentinel, screen, pages)
     IN  /\ stack' = r.stack
         /\ screen' = r.screen
         /\ last' = [KeyLast(<<E0, "86">>) EXCEPT !.returned = r.returned,
                                                  !.printed = r.printed]
  /\ UNCHANGED <<colors, rows, opts, pages>>

\* Faulty variant of the fall-through: the second byte is taken as a key typed.
KeyOtherEscapeTypesSecond(k1, k2) ==
  /\ stack # <<>>
  /\ k1 \in {E0, NUL}
  /\ <<k1, k2>> \notin {<<E0, "Q">>, <<E0, "I">>, <<E0, "86">>}
  /\ stack' = SetTop([Top EXCEPT !.choice = Append(@, k2)])
  /\ screen' = [screen EXCEPT !.echo = Append(@, k2)]
  /\ last' = KeyLast(<<k1, k2>>)
  /\ UNCHANGED <<colors, rows, opts, pages>>

\* A prefix byte and a second byte that form none of the three sequences: no
\* branch of the if/elif chain is taken.
KeyOtherEscape(k1, k2) ==
  /\ stack # <<>>
  /\ k1 \in {E0, NUL}
  /\ <<k1, k2>> \notin {<<E0, "Q">>, <<E0, "I">>, <<E0, "86">>}
  /\ last' = KeyLast(<<k1, k2>>)
  /\ UNCHANGED <<colors, rows, opts, pages, stack, screen>>

\* Any other key: echoed and appended to choice.
KeyPrintable(k) ==
  /\ stack # <<>>
  /\ Len(Top.choice) < MaxBuf
  /\ stack' = SetTop([Top EXCEPT !.choice = Append(@, k)])
  /\ screen' = [screen EXCEPT !.echo = Append(@, k)]
  /\ last' = KeyLast(<<k>>)
  /\ UNCHANGED <<colors, rows, opts, pages>>

Next ==
  \/ \E m \in Menus : \E o \in OptionInputs(m) : AddNewOption(m, o[1], o[2])
  \/ \E m \in Menus : \E x \in {NoneV, IntV} : AddSlot(m, x)
  \/ ShowCall("main")
  \/ KeyEnter
  \/ KeyPageDown
  \/ KeyPageUp
  \/ KeyQuickExit
  \/ \E ks \in OtherSeqs : KeyOtherEscape(ks[1], ks[2])
  \/ \E k \in Printable : KeyPrintable(k)

Spec == Init /\ [][Next]_vars

\* --------------------------------------- pagination on its own (_paginate)
\* Menus of up to MaxSlots slots, blank or not, built before the first show,
\* on terminals of every capacity up to MaxPageCap; show paginates them and the
\* page keys walk the pages.
FooOption == MenuOptionInit(NewSelf, "Foo", Fn("foo")).opt

SlotSeqs(n) == UNION {[1..k -> {NoneV, FooOption}] : k \in 0..n}

InitPaginate ==
  /\ colors = use_color_scheme(NoColors, "default")
  /\ rows \in 8..(7 + MaxPageCap)
  /\ opts \in {[m \in Menus |-> IF m = "main" THEN s ELSE <<>>] : s \in SlotSeqs(MaxSlots)}
  /\ pages = [m \in Menus |-> <<>>]
  /\ stack = <<>>
  /\ screen = BlankScreen
  /\ last = NoLast

NextPaginate ==
  \/ ShowCall("main")
  \/ KeyPageDown
  \/ KeyPageUp
  \/ KeyQuickExit

SpecPaginate == InitPaginate /\ [][NextPaginate]_vars

\* ------------------------------------- the wiring code on its own (no show)
\* The statements an application runs before its first show: color schemes,
\* menus constructed, options added.
NextSetup ==
  \/ \E name \in SchemeNames : UseColorScheme(name)
  \/ \E m \in Menus : \E u \in {UIV, IntV} : NewMenu(m, u)
  \/ \E m \in Menus : \E o \in OptionInputs(m) : AddNewOption(m, o[1], o[2])
  \/ \E m \in Menus : \E x \in {NoneV, IntV} : AddSlot(m, x)

SpecSetup == Init /\ [][NextSetup]_vars

\* ================================================================ claims
OnKey(ks) == last.op = "key" /\ last.key = ks

\* The loop that read the key is still running, in the same frame.
Continues ==
  /\ Depth = last.depth
  /\ Top.menu = last.menu
  /\ last.raised = NoExc
  /\ last.returned = NoRet

\* The decimal digits of k, as the keys that type them.
DecChars == <<"0", "1", "2", "3", "4", "5", "6", "7", "8", "9">>
RECURSIVE Dec(_)
Dec(k) == IF k < 10 THEN <<DecChars[k + 1]>>
          ELSE Append(Dec(k \div 10), DecChars[(k % 10) + 1])

\* Position in the full option list of the first slot of page i (0-based).
RECURSIVE PageStart(_, _)
PageStart(pgs, i) == IF i = 0 THEN 0 ELSE PageStart(pgs, i - 1) + Len(pgs[i])

RECURSIVE Concat(_)
Concat(pgs) == IF Len(pgs) = 0 THEN <<>> ELSE Head(pgs) \o Concat(Tail(pgs))

CeilDiv(n, c) == (n + c - 1) \div c

\* The page area of the screen shows the slots of `page`, line by line.
ShowsPage(page) ==
  /\ Len(screen.lines) = Len(page)
  /\ \A j \in 1..Len(page) :
       IF page[j] = NoneV THEN screen.lines[j] = BlankLine
       ELSE screen.lines[j].name = page[j].id

\* The option whose func a step invoked, from the step's call record.
CalledOption(c) == opts[c[1]][c[2] + 1]

\* C1: the forward-page key read on the last page is a no-op: page index and
\* digit buffer unchanged, nothing raised, the loop goes on.
C1_ForwardOnLastPageIsNoOp ==
  (OnKey(<<E0, "Q">>) /\ last.i = Len(pages[last.menu]) - 1)
    => (Continues /\ Top.i = last.i /\ Top.choice = last.choice)

\* C2: on every page drawn during a show, the number printed in front of a
\* non-blank slot is the slot's position in the full option list.
C2_PrintedNumberIsListPosition ==
  stack # <<>> =>
    \A j \in 1..Len(screen.lines) :
      screen.lines[j] # BlankLine =>
        screen.lines[j].num = PageStart(pages[Top.menu], Top.i) + (j - 1)

\* C3: Enter on a buffer that parses to k with k < 0 or k >= n invokes no
\* action and fails with an index-lookup failure that leaves show.
C3_NoSuchPositionRaises ==
  (OnKey(<<CR>>) /\ PyInt(last.choice).ok
     /\ (PyInt(last.choice).val < 0
           \/ PyInt(last.choice).val >= Len(opts[last.menu])))
    => (last.called = <<>> /\ last.raised = IndexError /\ stack = <<>>)

\* C4: from an empty buffer, the digits of k (slot k a real option) and Enter
\* invoke the action of the option at position k of the full list, once, and
\* no other action, whatever page is displayed.
C4_DigitsDispatchListPosition ==
  OnKey(<<CR>>) =>
    \A k \in 0..(Len(opts[last.menu]) - 1) :
      (last.choice = Dec(k) /\ opts[last.menu][k + 1] # NoneV)
        => last.called = << <<last.menu, k>> >>

C4_Witness ==
  /\ OnKey(<<CR>>)
  /\ last.i = 1
  /\ last.choice = <<"0">>
  /\ last.called = << <<"main", 0>> >>

\* C5: _paginate gives ceil(n/c) pages for n > 0 slots and one empty page for
\* n = 0; no page holds more than c slots, blank slots included; the pages
\* concatenated are the option list.
C5_PaginationPartitions ==
  stack # <<>> =>
    LET os  == opts[Top.menu]
        pgs == pages[Top.menu]
        c   == rows - 7
    IN  /\ Len(pgs) = IF Len(os) = 0 THEN 1 ELSE CeilDiv(Len(os), c)
        /\ \A p \in 1..Len(pgs) : Len(pgs[p]) <= c
        /\ Concat(pgs) = os

C5_Witness ==
  /\ stack # <<>>
  /\ rows = 9
  /\ Len(opts["main"]) = 5
  /\ Len(pages["main"]) = 3
  /\ Len(pages["main"][3]) = 1
  /\ pages["main"][1] = <<NoneV, FooOption>>

\* C6: MenuOption("X", 5) fails with an OptionError whose offending object is
\* the invalid action value itself.
C6_OptionErrorCarriesAction ==
  (last.op = "new" /\ last.arg.cls \notin {"function", "method", "Menu"})
    => (last.raised.type = "OptionError" /\ last.raised.obj = last.arg)

\* C7: an action answering a status string leaves the loop running, buffer
\* cleared, page index unchanged; an action answering None ends the loop; the
\* value a show returns is always the one sentinel.
C7_StatusContinuesNoneReturns ==
  /\ (OnKey(<<CR>>) /\ Len(last.called) = 1
        /\ CalledOption(last.called[1]).func.cls = "function")
       => LET v == Ret(CalledOption(last.called[1]).func.id)
          IN  IF v # NoneV
                THEN Continues /\ Top.choice = <<>> /\ Top.i = last.i
                       /\ last.printed = v
                ELSE Depth = last.depth - 1 /\ last.returned = Sentinel
                       /\ last.raised = NoExc
  /\ last.returned # NoRet => last.returned = Sentinel

C7_Witness ==
  /\ OnKey(<<CR>>)
  /\ last.i = 1
  /\ last.printed = Str("Foo!")
  /\ stack # <<>>

\* C8: selecting an option built on a Menu runs that submenu's show (its own
\* pagination, page 0, empty buffer), and when that show returns, the value
\* the parent loop handles is the value it returned.
C8_SubmenuRunsAndResultIsPassed ==
  /\ (OnKey(<<CR>>) /\ Len(last.called) = 1
        /\ CalledOption(last.called[1]).func.cls = "method")
       => /\ Depth = last.depth + 1
          /\ last.raised = NoExc /\ last.returned = NoRet
          /\ Top.menu = CalledOption(last.called[1]).func.id
          /\ Top.i = 0 /\ Top.choice = <<>>
          /\ pages[Top.menu] = Paginate(opts[Top.menu], rows)
          /\ Top.cur_page = pages[Top.menu][1]
          /\ ShowsPage(Top.cur_page)
          /\ stack[last.depth].i = last.i
  /\ (last.op = "key" /\ last.depth = 2 /\ last.returned # NoRet)
       => /\ Depth = 1
          /\ last.raised = NoExc
          /\ last.printed = last.returned

C8_Witness ==
  /\ OnKey(<<CR>>)
  /\ last.depth = 2
  /\ last.menu = "sub"
  /\ Len(last.called) = 1
  /\ Depth = 1
  /\ last.printed = Sentinel

\* C9: Enter on a buffer that parses to the position of a blank slot invokes
\* no action, empties the buffer, keeps the page index, and the loop goes on.
C9_BlankSlotIsNotSelectable ==
  (OnKey(<<CR>>) /\ PyInt(last.choice).ok
     /\ PyInt(last.choice).val \in 0..(Len(opts[last.menu]) - 1)
     /\ opts[last.menu][PyInt(last.choice).val + 1] = NoneV)
    => (last.called = <<>> /\ Continues /\ Top.choice = <<>> /\ Top.i = last.i)

C9_Witness ==
  /\ OnKey(<<CR>>)
  /\ last.choice = <<"1">>
  /\ Len(opts[last.menu]) = 2
  /\ opts[last.menu][2] = NoneV
  /\ stack # <<>>

\* C10: the backward-page key on page 0 is a no-op; on a later page the index
\* goes down by one and the page displayed is the page at the new index.
C10_BackwardPage ==
  OnKey(<<E0, "I">>) =>
    /\ Continues
    /\ Top.choice = last.choice
    /\ IF last.i = 0
         THEN Top.i = 0
         ELSE /\ Top.i = last.i - 1
              /\ Top.cur_page = pages[Top.menu][Top.i + 1]
              /\ ShowsPage(pages[Top.menu][Top.i + 1])

C10_Witness ==
  /\ OnKey(<<E0, "I">>)
  /\ last.i = 1
  /\ last.choice # <<>>
  /\ Top.i = 0

\* The buffer is the text of an integer: an optional sign, then digits.
IsNumber(choice) ==
  LET body == IF Len(choice) > 0 /\ choice[1] = "-" THEN Tail(choice) ELSE choice
  IN  Len(body) > 0 /\ \A j \in 1..Len(body) : \E d \in 1..Len(DecChars) : body[j] = DecChars[d]

\* C11: Enter on an empty or unparsable buffer invokes nothing, raises nothing,
\* empties the buffer, keeps the page index and the loop goes on; Enter is never
\* put into the buffer.
C11_UnparsableBufferIsCleared ==
  /\ (OnKey(<<CR>>) /\ ~IsNumber(last.choice))
       => (last.called = <<>> /\ Continues /\ Top.choice = <<>> /\ Top.i = last.i)
  /\ \A d \in 1..Depth : \A j \in 1..Len(stack[d].choice) : stack[d].choice[j] # CR

C11_Witness ==
  /\ OnKey(<<CR>>)
  /\ last.choice = <<>>
  /\ last.i = 1
  /\ Len(opts[last.menu]) = 2
  /\ opts[last.menu][1] # NoneV
  /\ stack # <<>>

\* C12: the quick-exit sequence ends the show that reads it, in every state
\* (any page, any buffer), invokes no action, and the show returns the sentinel.
C12_QuickExitReturnsSentinel ==
  OnKey(<<E0, "86">>) =>
    /\ Depth = last.depth - 1
    /\ last.called = <<>>
    /\ last.raised = NoExc
    /\ last.returned = Sentinel

C12_Witness ==
  /\ OnKey(<<E0, "86">>)
  /\ last.i = 1
  /\ last.choice # <<>>
  /\ last.returned = Sentinel
  /\ stack = <<>>

\* A show was entered in this step: called by the application, or through an
\* option bound to a submenu.
ShowEntered == last.op = "show" \/ (OnKey(<<CR>>) /\ Depth = last.depth + 1)

\* C13: every entry into show paginates the menu's current option list and
\* starts on page 0 with an empty buffer; slots added since the previous show
\* are in the pages.
C13_ShowStartsAfresh ==
  ShowEntered =>
    /\ Top.i = 0
    /\ Top.choice = <<>>
    /\ Concat(pages[Top.menu]) = opts[Top.menu]
    /\ \A p \in 1..Len(pages[Top.menu]) : Len(pages[Top.menu][p]) <= rows - 7
    /\ Top.cur_page = pages[Top.menu][1]
    /\ ShowsPage(pages[Top.menu][1])

C13_Witness ==
  /\ last.op = "show"
  /\ last.prev # <<>>
  /\ Len(Concat(last.prev)) < Len(opts["main"])
  /\ Len(last.prev) < Len(pages["main"])
  /\ Top.i = 0

IsPrefix(a, b) == Len(a) <= Len(b) /\ SubSeq(b, 1, Len(a)) = a

\* C14: a page key that changes the page leaves the digit buffer as it was, so
\* digits typed before and after it are parsed together; within a loop the
\* buffer only loses keys on Enter.
C14_PageKeysKeepBuffer ==
  /\ ((OnKey(<<E0, "Q">>) \/ OnKey(<<E0, "I">>)) /\ last.raised = NoExc)
       => (Continues /\ Top.choice = last.choice)
  /\ (last.op = "key" /\ last.key # <<CR>> /\ Continues)
       => IsPrefix(last.choice, Top.choice)

C14_Witness ==
  /\ OnKey(<<"1">>)
  /\ Top.i = 1
  /\ Top.choice = <<"0", "1">>
  /\ screen.echo = <<"1">>

\* C15: a prefix byte with a second byte that is none of the three sequences is
\* a no-op: buffer and page index unchanged, nothing invoked, the loop goes on;
\* the second byte is not read as a key of its own.
C15_UnknownSequenceIsNoOp ==
  (last.op = "key" /\ Len(last.key) = 2 /\ last.key[1] \in {E0, NUL}
     /\ last.key \notin {<<E0, "Q">>, <<E0, "I">>, <<E0, "86">>})
    => /\ Continues
       /\ Top.i = last.i
       /\ Top.choice = last.choice
       /\ last.called = <<>>
       /\ last.printed = NoRet

C15_Witness ==
  /\ OnKey(<<E0, CR>>)
  /\ last.choice = <<"0">>
  /\ opts[last.menu] # <<>>
  /\ opts[last.menu][1] # NoneV
  /\ Top.choice = <<"0">>

\* C16: a show that returns normally returns the non-empty sentinel, so a
\* submenu's return never ends the parent's loop: the parent goes on at the
\* page index it had, with an empty buffer.
C16_SubmenuReturnResumesParent ==
  [][Len(stack) = 2 =>
       /\ last'.raised = NoExc => Len(stack') >= 1
       /\ Len(stack') = 2 => stack'[1] = stack[1]
       /\ Len(stack') = 1 =>
            /\ last'.returned = Sentinel
            /\ last'.returned # Str("")
            /\ stack'[1].menu = stack[1].menu
            /\ stack'[1].i = stack[1].i
            /\ stack'[1].cur_page = stack[1].cur_page
            /\ stack'[1].choice = <<>>]_vars

C16_Witness ==
  /\ OnKey(<<E0, "86">>)
  /\ last.depth = 2
  /\ Depth = 1
  /\ Top.i = 1
  /\ Top.choice = <<>>
  /\ last.returned = Sentinel

\* C17: whenever a show waits for a key, its page index i satisfies
\* 0 <= i < number of pages, and the page last drawn is page i of the
\* pagination made when the show was entered.
C17_PageIndexInRange ==
  /\ \A d \in 1..Depth :
       LET f == stack[d]
       IN  /\ 0 <= f.i /\ f.i < Len(pages[f.menu])
           /\ f.cur_page = pages[f.menu][f.i + 1]
           /\ pages[f.menu] = Paginate(opts[f.menu], rows)
  /\ stack # <<>> => (screen.hdr = Top.menu /\ ShowsPage(pages[Top.menu][Top.i + 1]))

C17_Witness ==
  /\ OnKey(<<E0, "Q">>)
  /\ stack # <<>>
  /\ last.choice # <<>>
  /\ Top.i = 1
  /\ Len(pages[Top.menu]) = 2
  /\ ShowsPage(pages[Top.menu][2])

\* C19: the footer shows '+' exactly when a page follows the current one and
\* '-' exactly when a page precedes it; so '+' is on the screen exactly where
\* the forward-page key changes the page, and '-' where the backward-page key
\* does.
C19_IndicatorsMatchPaging ==
  /\ stack # <<>> =>
       /\ screen.fwd <=> (Top.i + 1 < Len(pages[Top.menu]))
       /\ screen.bwd <=> (Top.i > 0)
  /\ OnKey(<<E0, "Q">>) =>
       ((Continues /\ Top.i = last.i + 1) <=> (last.i + 1 < Len(pages[last.menu])))
  /\ OnKey(<<E0, "I">>) =>
       ((Continues /\ Top.i = last.i - 1) <=> (last.i > 0))

C19_Witness ==
  /\ OnKey(<<CR>>)
  /\ stack # <<>>
  /\ last.called = <<>>
  /\ Top.i = 1
  /\ screen.bwd
  /\ ~screen.fwd

\* C18: add_option appends a MenuOption or None at the end and raises
\* OptionError carrying any other value, leaving the list as it was; every
\* add keeps the earlier slots at their positions; Menu(ui, header) with a ui
\* that is not a MenuUI raises MenuError carrying that object.
Accepted(x) == x.cls = "MenuOption" \/ x = NoneV

C18_AddOptionAndMenuValidate ==
  [][ /\ last'.op = "add" =>
           IF Accepted(last'.arg)
             THEN /\ last'.raised = NoExc
                  /\ opts' = [opts EXCEPT ![last'.menu] = Append(@, last'.arg)]
             ELSE /\ last'.raised.type = "OptionError"
                  /\ last'.raised.obj = last'.arg
                  /\ opts' = opts
      /\ last'.op = "new" =>
           IF last'.raised = NoExc
             THEN /\ Len(opts'[last'.menu]) = Len(opts[last'.menu]) + 1
                  /\ opts'[last'.menu][Len(opts'[last'.menu])].cls = "MenuOption"
             ELSE opts' = opts
      /\ last'.op \in {"add", "new"} =>
           \A m \in Menus : IsPrefix(opts[m], opts'[m])
      /\ last'.op = "menu" =>
           IF last'.arg.cls = "MenuUI"
             THEN last'.raised = NoExc
             ELSE /\ last'.raised.type = "MenuError"
                  /\ last'.raised.obj = last'.arg
                  /\ opts' = opts
    ]_vars

C18_Witness ==
  /\ last.op = "add"
  /\ last.arg = IntV
  /\ last.raised.type = "OptionError"
  /\ Len(opts[last.menu]) >= 1
  /\ opts[last.menu][1] = NoneV

\* C20: use_color_scheme with a name that is no preset raises nothing and
\* leaves every color field as it was; with a preset name it assigns every
\* field, so the fields afterwards are the same whatever they were before.
Presets == {"default", "curses", "as400"}

C20_SchemeAssignsAllOrNothing ==
  [][ last'.op = "scheme" =>
        /\ last'.raised = NoExc
        /\ IF last'.arg.id \in Presets
             THEN /\ colors' = use_color_scheme(NoColors, last'.arg.id)
                  /\ \A f \in ColorFields : colors'[f] >= 0
             ELSE colors' = colors
    ]_vars

C20_Witness ==
  /\ last.op = "scheme"
  /\ last.arg = Str("mono")
  /\ colors.bg = 4
  /\ colors.ps1_fg = 3

====
